---- MODULE Spec2Model ----
(***************************************************************************)
(* The Student Grade Analyzer (lecture_3/student_grade_analyzer.py): the    *)
(* in-memory registry `students`, its operations and the menu loop of       *)
(* main().  A text line is a sequence of one-character strings, so that     *)
(* str.strip(), str.lower() and int() are computed, not assumed.  The       *)
(* program blocks in input() at four places; `pc` names the place, and one  *)
(* action models everything the code does between two input() calls.        *)
(***************************************************************************)
EXTENDS Integers, Sequences, FiniteSets, TLC

\* Bound of the model: grades stored in the whole registry.  The environment
\* stops offering an acceptable grade once it is reached.  (The registry's
\* length is bounded by the names of NameLines.)
MaxGrades == 3

\* The inclusive grade range of `if not 0 <= grade <= 100`.
MinGrade == 0
MaxGrade == 100

VARIABLES
    students,       \* main(): the list of {"name", "grades"} records
    pc,             \* the input() call the program is blocked in
    driver,         \* "Running", "Exiting" (farewell printed, status 0) or
                    \* "Failed" (an exception left main(): traceback, status 1)
    student,        \* add_grades_for_student: index of the matched record; 0
                    \* outside the function's while loop
    initial_count,  \* add_grades_for_student: len(student["grades"]) at the
                    \* start; 0 outside the loop
    out,            \* what the last step printed
    before,         \* history: the registry when the running operation was dispatched
    accepted,       \* history: the values of the valid grade tokens (integers
                    \* from 0 to 100) typed in the running add-grades session
    last            \* history: the last input event and the prompt it arrived at

vars == <<students, pc, driver, student, initial_count, out, before, accepted, last>>

----------------------------------------------------------------------------
(* Text: str.strip(), str.lower(), int().                                  *)

Whitespace == {" "}
Digits == {"0", "1", "2", "3", "4", "5", "6", "7", "8", "9"}

DigitVal(c) ==
    CASE c = "0" -> 0 [] c = "1" -> 1 [] c = "2" -> 2 [] c = "3" -> 3
      [] c = "4" -> 4 [] c = "5" -> 5 [] c = "6" -> 6 [] c = "7" -> 7
      [] c = "8" -> 8 [] c = "9" -> 9

LowerChar(c) ==
    CASE c = "A" -> "a" [] c = "B" -> "b" [] c = "D" -> "d"
      [] c = "E" -> "e" [] c = "N" -> "n" [] c = "O" -> "o"
      [] OTHER -> c

\* str.lower()
Lower(s) == [i \in 1..Len(s) |-> LowerChar(s[i])]

RECURSIVE LStrip(_)
LStrip(s) ==
    IF s # <<>> /\ Head(s) \in Whitespace THEN LStrip(Tail(s)) ELSE s

RECURSIVE RStrip(_)
RStrip(s) ==
    IF s # <<>> /\ s[Len(s)] \in Whitespace
    THEN RStrip(SubSeq(s, 1, Len(s) - 1))
    ELSE s

\* str.strip()
Strip(s) == RStrip(LStrip(s))

RECURSIVE DigitsValue(_)
DigitsValue(s) ==
    IF s = <<>> THEN 0
    ELSE 10 * DigitsValue(SubSeq(s, 1, Len(s) - 1)) + DigitVal(s[Len(s)])

\* int(text): surrounding whitespace ignored, an optional sign, then one or
\* more decimal digits; anything else raises ValueError (ok = FALSE).
ParseInt(s) ==
    LET t == Strip(s)
        signed == t # <<>> /\ Head(t) \in {"+", "-"}
        body == IF signed THEN Tail(t) ELSE t
        good == body # <<>> /\ \A i \in 1..Len(body) : body[i] \in Digits
    IN  IF ~good THEN [ok |-> FALSE, val |-> 0]
        ELSE [ok |-> TRUE,
              val |-> IF signed /\ Head(t) = "-"
                      THEN 0 - DigitsValue(body) ELSE DigitsValue(body)]

----------------------------------------------------------------------------
(* The lines the user types at each prompt.                                *)

MenuLines ==
    { <<"1">>, <<" ", "2">>, <<"3">>, <<"4", " ">>, <<"5">>, <<"+", "5">>,
      <<"6">>, <<"-", "1">>, <<"a">>, <<>> }

NameLines ==
    { <<>>, <<" ">>, <<"a">>, <<" ", "A", " ">>, <<"5">> }

GradeLines ==
    { <<"d", "o", "n", "e">>, <<" ", "D", "o", "n", "E">>,
      <<"0">>, <<"5">>, <<" ", "1", "0", "0">>,
      <<"-", "1">>, <<"1", "0", "1">>, <<"a">>, <<>> }

DoneWord == <<"d", "o", "n", "e">>

----------------------------------------------------------------------------
(* Output.                                                                 *)

None == <<>>

Msg(kind) ==
    [kind |-> kind, name |-> <<>>, count |-> 0, rows |-> <<>>, stats |-> <<>>]

MsgName(kind, name) == [Msg(kind) EXCEPT !.name = name]

Event(kind, prompt, line) == [event |-> kind, prompt |-> prompt, line |-> line]

----------------------------------------------------------------------------
(* Registry operations.                                                    *)

RECURSIVE Sum(_)
Sum(s) == IF s = <<>> THEN 0 ELSE Head(s) + Sum(Tail(s))

RECURSIVE TotalGrades(_)
TotalGrades(reg) ==
    IF reg = <<>> THEN 0 ELSE Len(Head(reg).grades) + TotalGrades(Tail(reg))

\* Variant: the line is taken as typed, .strip() forgotten.
StrippedInputRaw(line) == line

\* input(prompt).strip(): the line as every prompt of the program takes it.
StrippedInput(line) == Strip(line)

\* Variant: the new record is put in front, students.insert(0, ...).
AppendStudentFirst(reg, name) == <<[name |-> name, grades |-> <<>>]>> \o reg

\* students.append({"name": name, "grades": []})
AppendStudent(reg, name) == Append(reg, [name |-> name, grades |-> <<>>])

\* Variant: the grade is put in front, student["grades"].insert(0, grade).
AppendGradeFirst(reg, i, grade) == [reg EXCEPT ![i].grades = <<grade>> \o @]

\* student["grades"].append(grade), student being record i of the registry.
AppendGrade(reg, i, grade) == [reg EXCEPT ![i].grades = Append(@, grade)]

\* Variant: initial_count is not subtracted.
GradesAddedTotal(reg, i, count0) == Len(reg[i].grades)

\* grades_added = len(student["grades"]) - initial_count
GradesAdded(reg, i, count0) == Len(reg[i].grades) - count0

\* Variant: the stored name is compared as stored, s["name"] == normalized.
find_student_stored_case(reg, name) ==
    LET normalized == Lower(Strip(name))
        hits == {i \in 1..Len(reg) : reg[i].name = normalized}
    IN  IF hits = {} THEN 0 ELSE CHOOSE i \in hits : \A j \in hits : i <= j

\* Variant: the argument is stripped but not lowercased.
find_student_arg_case(reg, name) ==
    LET normalized == Strip(name)
        hits == {i \in 1..Len(reg) : Lower(reg[i].name) = normalized}
    IN  IF hits = {} THEN 0 ELSE CHOOSE i \in hits : \A j \in hits : i <= j

\* find_student: the index of the first record whose lowercased stored name
\* equals the stripped, lowercased argument; 0 stands for None.
find_student(reg, name) ==
    LET normalized == Lower(Strip(name))
        hits == {i \in 1..Len(reg) : Lower(reg[i].name) = normalized}
    IN  IF hits = {} THEN 0 ELSE CHOOSE i \in hits : \A j \in hits : i <= j

\* A rational number sum/count is the pair <<sum, count>>, count > 0.
RatLess(a, b) == a[1] * b[2] < b[1] * a[2]
RatEq(a, b) == a[1] * b[2] = b[1] * a[2]
RatAdd(a, b) == <<a[1] * b[2] + b[1] * a[2], a[2] * b[2]>>

\* Variant: a student without grades gets the average 0, `except: avg = 0`.
AverageZero(grades) ==
    IF Len(grades) = 0 THEN <<0, 1>> ELSE <<Sum(grades), Len(grades)>>

\* sum(grades) / len(grades), None on ZeroDivisionError.
Average(grades) ==
    IF Len(grades) = 0 THEN None ELSE <<Sum(grades), Len(grades)>>

IsAverage(a) == a # None

\* max(averages): the scan keeps the element it holds unless a later one is
\* strictly greater.
RECURSIVE MaxScan(_, _)
MaxScan(best, rest) ==
    IF rest = <<>> THEN best
    ELSE MaxScan(IF RatLess(best, Head(rest)) THEN Head(rest) ELSE best, Tail(rest))

\* min(averages)
RECURSIVE MinScan(_, _)
MinScan(best, rest) ==
    IF rest = <<>> THEN best
    ELSE MinScan(IF RatLess(Head(rest), best) THEN Head(rest) ELSE best, Tail(rest))

\* sum(averages)
RECURSIVE RatSum(_)
RatSum(s) == IF s = <<>> THEN <<0, 1>> ELSE RatAdd(Head(s), RatSum(Tail(s)))

\* sum(averages) / len(averages)
OverallAverage(averages) ==
    LET total == RatSum(averages) IN <<total[1], total[2] * Len(averages)>>

\* show_report: what it prints.
show_report(reg) ==
    IF reg = <<>> THEN Msg("NoStudents")
    ELSE
      LET rows == [i \in 1..Len(reg) |->
                     [name |-> reg[i].name, avg |-> Average(reg[i].grades)]]
          averages == SelectSeq([i \in 1..Len(rows) |-> rows[i].avg], IsAverage)
      IN  IF averages = <<>>
          THEN [Msg("NoGradesYet") EXCEPT !.rows = rows]
          ELSE [Msg("Report") EXCEPT
                  !.rows = rows,
                  !.stats = << MaxScan(Head(averages), Tail(averages)),
                               MinScan(Head(averages), Tail(averages)),
                               OverallAverage(averages) >>]

\* Variant: the scan also replaces its candidate by an equal key, so that
\* the last of several maximal records wins.
RECURSIVE TopScanLast(_, _, _)
TopScanLast(reg, best, rest) ==
    IF rest = <<>> THEN best
    ELSE TopScanLast(reg,
                 IF RatLess(Average(reg[Head(rest)].grades), Average(reg[best].grades))
                 THEN best ELSE Head(rest),
                 Tail(rest))

\* max(students_with_grades, key=average): the index of the record kept by
\* the scan, which replaces its candidate only by a strictly greater key.
RECURSIVE TopScan(_, _, _)
TopScan(reg, best, rest) ==
    IF rest = <<>> THEN best
    ELSE TopScan(reg,
                 IF RatLess(Average(reg[best].grades), Average(reg[Head(rest)].grades))
                 THEN Head(rest) ELSE best,
                 Tail(rest))

\* find_top_performer: what it prints.
find_top_performer(reg) ==
    IF reg = <<>> THEN Msg("NoStudentsFound")
    ELSE
      LET idx == [i \in 1..Len(reg) |-> i]
          HasGrades(i) == reg[i].grades # <<>>
          students_with_grades == SelectSeq(idx, HasGrades)
      IN  IF students_with_grades = <<>> THEN Msg("NoGradesAvailable")
          ELSE
            LET top == TopScan(reg, Head(students_with_grades),
                               Tail(students_with_grades))
            IN  [Msg("TopPerformer") EXCEPT
                   !.name = reg[top].name,
                   !.stats = <<Average(reg[top].grades)>>]

----------------------------------------------------------------------------
(* The program.                                                            *)

Init ==
    /\ students = <<>>
    /\ pc = "choice"
    /\ driver = "Running"
    /\ student = 0
    /\ initial_count = 0
    /\ out = Msg("Menu")
    /\ before = <<>>
    /\ accepted = <<>>
    /\ last = Event("start", "choice", <<>>)

\* main(): one pass of the loop from input("Enter your choice: ") up to the
\* next input() call, the called operation's first lines included.
main(line) ==
    /\ driver = "Running" /\ pc = "choice"
    /\ last' = Event("line", "choice", line)
    /\ before' = students
    /\ accepted' = <<>>
    /\ LET choice == ParseInt(StrippedInput(line)) IN
       IF ~choice.ok THEN
            /\ out' = Msg("InvalidChoiceNotNumber")
            /\ UNCHANGED <<students, pc, driver, student, initial_count>>
       ELSE IF choice.val = 1 THEN
            /\ pc' = "new_name"
            /\ out' = Msg("Prompt")
            /\ UNCHANGED <<students, driver, student, initial_count>>
       ELSE IF choice.val = 2 THEN
            IF students = <<>> THEN
                 /\ out' = Msg("NoStudentsAddFirst")
                 /\ UNCHANGED <<students, pc, driver, student, initial_count>>
            ELSE /\ pc' = "grade_name"
                 /\ out' = Msg("Prompt")
                 /\ UNCHANGED <<students, driver, student, initial_count>>
       ELSE IF choice.val = 3 THEN
            /\ out' = show_report(students)
            /\ UNCHANGED <<students, pc, driver, student, initial_count>>
       ELSE IF choice.val = 4 THEN
            /\ out' = find_top_performer(students)
            /\ UNCHANGED <<students, pc, driver, student, initial_count>>
       ELSE IF choice.val = 5 THEN
            /\ driver' = "Exiting"
            /\ out' = Msg("Farewell")
            /\ UNCHANGED <<students, pc, student, initial_count>>
       ELSE
            /\ out' = Msg("InvalidChoiceRange")
            /\ UNCHANGED <<students, pc, driver, student, initial_count>>

\* add_new_student from its input() on.
add_new_student(line) ==
    /\ driver = "Running" /\ pc = "new_name"
    /\ LET name == StrippedInput(line) IN
       /\ last' = Event("line", "new_name", line)
       /\ pc' = "choice"
       /\ IF name = <<>> THEN
               /\ out' = Msg("EmptyName")
               /\ students' = students
          ELSE IF find_student(students, name) # 0 THEN
               /\ out' = MsgName("DuplicateName", name)
               /\ students' = students
          ELSE /\ students' = AppendStudent(students, name)
               /\ out' = MsgName("Added", name)
    /\ UNCHANGED <<driver, student, initial_count, before, accepted>>

\* add_grades_for_student from input("Enter student name: ") up to the
\* first grade prompt.
add_grades_lookup(line) ==
    /\ driver = "Running" /\ pc = "grade_name"
    /\ last' = Event("line", "grade_name", line)
    /\ LET name == StrippedInput(line)
           found == find_student(students, name)
       IN  IF found = 0 THEN
                /\ out' = MsgName("StudentNotFound", name)
                /\ pc' = "choice"
                /\ UNCHANGED <<student, initial_count>>
           ELSE /\ student' = found
                /\ initial_count' = Len(students[found].grades)
                /\ pc' = "grade"
                /\ out' = Msg("Prompt")
    /\ UNCHANGED <<students, driver, before, accepted>>

\* Variant: the lower end of the range is not tested, `grade <= 100`.
InRangeNoLower(grade) == grade <= MaxGrade

\* `0 <= grade <= 100`
InRange(grade) == MinGrade <= grade /\ grade <= MaxGrade

\* Of the environment, not of the code: the typed line, once trimmed, is not
\* the word "done" in any case and is a decimal integer from 0 to 100.
TokenValid(line) ==
    /\ Lower(Strip(line)) # DoneWord
    /\ ParseInt(line).ok
    /\ ParseInt(line).val >= 0 /\ ParseInt(line).val <= 100

\* add_grades_for_student: one pass of its while loop, and after 'done' the
\* lines that follow the loop.
add_grades_for_student(line) ==
    /\ driver = "Running" /\ pc = "grade"
    /\ LET grade_str == StrippedInput(line)
           grade == ParseInt(grade_str)
       IN
       /\ TokenValid(line) => TotalGrades(students) < MaxGrades
       /\ last' = Event("line", "grade", line)
       /\ accepted' = IF TokenValid(line)
                      THEN Append(accepted, ParseInt(line).val) ELSE accepted
       /\ IF Lower(grade_str) = DoneWord THEN
               /\ out' = [MsgName("GradesUpdated", students[student].name) EXCEPT
                            !.count = GradesAdded(students, student, initial_count)]
               /\ pc' = "choice"
               /\ student' = 0
               /\ initial_count' = 0
               /\ UNCHANGED students
          ELSE IF ~grade.ok THEN
               /\ out' = Msg("InvalidFormat")
               /\ UNCHANGED <<students, pc, student, initial_count>>
          ELSE IF ~InRange(grade.val) THEN
               /\ out' = Msg("OutOfRange")
               /\ UNCHANGED <<students, pc, student, initial_count>>
          ELSE /\ students' = AppendGrade(students, student, grade.val)
               /\ out' = Msg("Prompt")
               /\ UNCHANGED <<pc, student, initial_count>>
    /\ UNCHANGED <<driver, before>>

\* KeyboardInterrupt raised in whichever input() the program is blocked in:
\* caught by main()'s except clause, which prints the farewell and returns.
KeyboardInterrupt ==
    /\ driver = "Running"
    /\ driver' = "Exiting"
    /\ out' = Msg("Farewell")
    /\ last' = Event("interrupt", pc, <<>>)
    /\ UNCHANGED <<students, pc, student, initial_count, before, accepted>>

\* End of input: input() raises EOFError, which no except clause of the
\* program names; it leaves main() as an unhandled exception.
EndOfInput ==
    /\ driver = "Running"
    /\ driver' = "Failed"
    /\ out' = Msg("Traceback")
    /\ last' = Event("eof", pc, <<>>)
    /\ UNCHANGED <<students, pc, student, initial_count, before, accepted>>

Next ==
    \/ \E line \in MenuLines : main(line)
    \/ \E line \in NameLines : add_new_student(line)
    \/ \E line \in NameLines : add_grades_lookup(line)
    \/ \E line \in GradeLines : add_grades_for_student(line)
    \/ KeyboardInterrupt
    \/ EndOfInput

Spec == Init /\ [][Next]_vars

----------------------------------------------------------------------------
(* Properties.                                                             *)

\* The specification's normal form of a name: trimmed, then lowercased.
Normalize(name) == Lower(Strip(name))

\* Some record of reg has the normal form of the raw name.
Registered(reg, raw) ==
    \E i \in 1..Len(reg) : Normalize(reg[i].name) = Normalize(raw)

IsPrefix(s, t) == Len(s) <= Len(t) /\ SubSeq(t, 1, Len(s)) = s

\* The last step read this kind of line at this prompt.
JustRead(prompt) == last.event = "line" /\ last.prompt = prompt

\* The last step read a menu line that int() turns into n.
JustChose(n) == JustRead("choice") /\ ParseInt(last.line) = [ok |-> TRUE, val |-> n]

\* C1: in every reachable state no two records of the registry have the same
\* normalized (trimmed, lowercased) name, and every stored name is non-empty
\* and already trimmed.
C1_UniqueNormalizedNames ==
    /\ \A i, j \in 1..Len(students) :
          i # j => Normalize(students[i].name) # Normalize(students[j].name)
    /\ \A i \in 1..Len(students) :
          students[i].name # <<>> /\ Strip(students[i].name) = students[i].name

\* Two records are stored, one under an upper-case name, and a lower-case,
\* padded or differently cased spelling of a stored name has just been refused.
C1_Witness ==
    /\ Len(students) = 2
    /\ \E i \in 1..2 : students[i].name = <<"A">>
    /\ JustRead("new_name") /\ last.line = <<"a">>
    /\ out.kind = "DuplicateName"

\* C2: in every reachable state every stored grade is an integer from 0 to
\* 100 inclusive, whatever tokens were typed in whatever sessions.
C2_GradesInRange ==
    \A i \in 1..Len(students) : \A k \in 1..Len(students[i].grades) :
        LET g == students[i].grades[k] IN g \in Int /\ 0 <= g /\ g <= 100

\* Both ends of the range are stored and a value outside it has just been
\* refused in the same session.
C2_Witness ==
    /\ pc = "grade" /\ JustRead("grade") /\ out.kind = "OutOfRange"
    /\ last.line = <<"-", "1">>
    /\ \E k \in 1..Len(students[student].grades) : students[student].grades[k] = 0
    /\ \E k \in 1..Len(students[student].grades) : students[student].grades[k] = 100

\* C3: add-student succeeds exactly when the trimmed name is non-empty and no
\* record has its normalized name; on success the registry is the old one
\* with the record (trimmed name in its original case, no grades) appended
\* last, and the name is then found at that place; otherwise the registry is
\* unchanged and EmptyName or DuplicateName is reported.
C3_AddStudent ==
    JustRead("new_name") =>
        LET raw == last.line
            fresh == [name |-> Strip(raw), grades |-> <<>>]
        IN  /\ pc = "choice"
            /\ IF Strip(raw) = <<>>
               THEN out.kind = "EmptyName" /\ students = before
               ELSE IF Registered(before, raw)
               THEN out.kind = "DuplicateName" /\ students = before
               ELSE /\ out.kind = "Added" /\ out.name = Strip(raw)
                    /\ students = before \o <<fresh>>
                    /\ find_student(students, raw) = Len(students)

\* A padded upper-case name has just been added after another record, and is
\* stored trimmed in its original case.
C3_Witness ==
    /\ JustRead("new_name") /\ last.line = <<" ", "A", " ">>
    /\ out.kind = "Added"
    /\ Len(students) = 2 /\ students[2].name = <<"A">>

\* The add-grades session in progress has stored exactly the valid tokens
\* typed so far, in order, after the student's earlier grades, and has
\* changed nothing else.
SessionApplied(i) ==
    /\ i \in 1..Len(before)
    /\ Len(students) = Len(before)
    /\ students[i].name = before[i].name
    /\ students[i].grades = before[i].grades \o accepted
    /\ \A j \in 1..Len(students) : j # i => students[j] = before[j]

\* C4: an add-grades session on a found student that reaches 'done' leaves
\* the student's grades equal to the grades before followed by exactly the
\* accepted tokens (integers from 0 to 100) in the order typed, reports their
\* number, and changes no other record; a rejected token (InvalidFormat when
\* it is no integer, OutOfRange when it is one outside the range) changes
\* nothing and the session goes on.
C4_GradeSession ==
    /\ (JustRead("grade") /\ out.kind = "GradesUpdated") =>
          /\ pc = "choice"
          /\ Lower(Strip(last.line)) = DoneWord
          /\ out.count = Len(accepted)
          /\ \E i \in 1..Len(students) :
                students[i].name = out.name /\ SessionApplied(i)
    /\ (JustRead("grade") /\ Lower(Strip(last.line)) = DoneWord) =>
          out.kind = "GradesUpdated"
    /\ (JustRead("grade") /\ Lower(Strip(last.line)) # DoneWord) =>
          /\ pc = "grade" /\ driver = "Running"
          /\ SessionApplied(student)
          /\ Len(students[student].grades) = initial_count + Len(accepted)
          /\ out.kind = IF ~ParseInt(last.line).ok THEN "InvalidFormat"
                        ELSE IF ~TokenValid(last.line) THEN "OutOfRange"
                        ELSE "Prompt"

\* A second session on a student who already had a grade, with another
\* graded student in the registry, has ended after one accepted token.
C4_Witness ==
    /\ JustRead("grade") /\ out.kind = "GradesUpdated" /\ out.count = 1
    /\ Len(students) = 2
    /\ \E i \in 1..2 : students[i].name = out.name /\ Len(students[i].grades) = 2
    /\ \A i \in 1..2 : students[i].grades # <<>>

\* C5: add-grades with an empty registry reports EmptyRegistry at once, no
\* name and no grade being read; with a non-empty registry and a name no
\* record matches it reports StudentNotFound, no grade being read; both leave
\* the registry unchanged and the program at the menu prompt.
C5_AddGradesPreconditions ==
    /\ (JustChose(2) /\ before = <<>>) =>
          /\ out.kind = "NoStudentsAddFirst"
          /\ pc = "choice" /\ students = before
    /\ (JustChose(2) /\ before # <<>>) => pc = "grade_name" /\ students = before
    /\ JustRead("grade_name") =>
          IF Registered(before, last.line)
          THEN pc = "grade" /\ out.kind = "Prompt"
          ELSE /\ out.kind = "StudentNotFound"
               /\ pc = "choice" /\ students = before /\ accepted = <<>>
    /\ out.kind = "NoStudentsAddFirst" => JustChose(2) /\ students = <<>>
    /\ out.kind = "StudentNotFound" => JustRead("grade_name") /\ students # <<>>

\* A name that no record has was typed at the name prompt of add-grades
\* while the registry held a graded student.
C5_Witness ==
    /\ out.kind = "StudentNotFound" /\ pc = "choice"
    /\ last.line = <<"5">>
    /\ students # <<>> /\ students[1].grades # <<>>

\* The records of reg that have at least one grade.
Graded(reg) == {i \in 1..Len(reg) : reg[i].grades # <<>>}

\* The exact average of record i, as the pair <<sum, count>>.
Avg(reg, i) == <<Sum(reg[i].grades), Len(reg[i].grades)>>

RECURSIVE CountProduct(_, _)
CountProduct(reg, S) ==
    IF S = {} THEN 1
    ELSE LET i == CHOOSE x \in S : TRUE
         IN  Len(reg[i].grades) * CountProduct(reg, S \ {i})

\* The sum of the averages of the records in S, times the product D of all
\* their grade counts (an integer).
RECURSIVE ScaledAverages(_, _, _)
ScaledAverages(reg, S, D) ==
    IF S = {} THEN 0
    ELSE LET i == CHOOSE x \in S : TRUE
         IN  (Sum(reg[i].grades) * D) \div Len(reg[i].grades)
               + ScaledAverages(reg, S \ {i}, D)

\* The mean of the averages of the graded records, as a pair.
MeanOfAverages(reg) ==
    LET D == CountProduct(reg, Graded(reg))
    IN  <<ScaledAverages(reg, Graded(reg), D), D * Cardinality(Graded(reg))>>

\* The mean of all grades of the registry taken together, as a pair.
PooledMean(reg) ==
    <<Sum([i \in 1..Len(reg) |-> Sum(reg[i].grades)]), TotalGrades(reg)>>

\* C6: the report says NoStudents exactly for the empty registry; otherwise
\* it lists every record in registry order with the average sum/count of its
\* grades, and NotAvailable (not 0) exactly for a record without grades; it
\* says NoGradesYet, with no aggregates, exactly when no record has a grade;
\* otherwise its maximum, minimum and overall average are the maximum, the
\* minimum and the mean of the averages of the records that have grades.
C6_Report ==
    JustChose(3) =>
        /\ students = before /\ pc = "choice"
        /\ out.kind = "NoStudents" <=> students = <<>>
        /\ out.kind = "NoGradesYet" <=> (students # <<>> /\ Graded(students) = {})
        /\ out.kind = "Report" <=> Graded(students) # {}
        /\ students = <<>> => out.rows = <<>>
        /\ students # <<>> =>
              /\ Len(out.rows) = Len(students)
              /\ \A i \in 1..Len(students) :
                    /\ out.rows[i].name = students[i].name
                    /\ IF students[i].grades = <<>>
                       THEN out.rows[i].avg = None
                       ELSE /\ out.rows[i].avg # None
                            /\ RatEq(out.rows[i].avg, Avg(students, i))
        /\ Graded(students) = {} => out.stats = <<>>
        /\ Graded(students) # {} =>
              /\ Len(out.stats) = 3
              /\ \E i \in Graded(students) : RatEq(out.stats[1], Avg(students, i))
              /\ \A i \in Graded(students) : ~RatLess(out.stats[1], Avg(students, i))
              /\ \E i \in Graded(students) : RatEq(out.stats[2], Avg(students, i))
              /\ \A i \in Graded(students) : ~RatLess(Avg(students, i), out.stats[2])
              /\ RatEq(out.stats[3], MeanOfAverages(students))

\* A report over two graded records with different numbers of grades, whose
\* overall average is not the mean of all grades taken together.
C6_Witness ==
    /\ JustChose(3) /\ out.kind = "Report"
    /\ Cardinality(Graded(students)) = 2
    /\ ~RatEq(out.stats[3], PooledMean(students))
    /\ RatLess(out.stats[2], out.stats[1])

\* C7: top-performer says NoStudents for the empty registry, NoGradesAvailable
\* when no record has a grade, and otherwise names the record with a grade
\* whose average sum/count is the greatest, the first of them in registry
\* order when several have the greatest average.
C7_TopPerformer ==
    JustChose(4) =>
        /\ students = before /\ pc = "choice"
        /\ students = <<>> => out.kind = "NoStudentsFound"
        /\ (students # <<>> /\ Graded(students) = {}) => out.kind = "NoGradesAvailable"
        /\ Graded(students) # {} =>
              /\ out.kind = "TopPerformer"
              /\ \E w \in Graded(students) :
                    /\ out.name = students[w].name
                    /\ out.stats = <<Avg(students, w)>>
                    /\ \A j \in Graded(students) :
                          ~RatLess(Avg(students, w), Avg(students, j))
                    /\ \A j \in Graded(students) :
                          j < w => RatLess(Avg(students, j), Avg(students, w))

\* Two records with different grades and the same average: the first is named.
C7_Witness ==
    /\ JustChose(4) /\ out.kind = "TopPerformer"
    /\ Len(students) = 2
    /\ Graded(students) = {1, 2}
    /\ students[1].grades # students[2].grades
    /\ RatEq(Avg(students, 1), Avg(students, 2))
    /\ out.name = students[1].name

\* C8: the registry is append-only.  A step changes it only by appending one
\* record without grades, at the name prompt that menu choice 1 leads to, or
\* by appending one grade to one record, at the grade prompt that menu choice
\* 2 leads to.  A step at the menu prompt never changes it, and unless the
\* line read there is the number 5 (or the step is an interrupt or the end of
\* input) the driver stays Running.  No record is removed, renamed or
\* reordered and no stored grade is removed or changed.
C8_AppendOnly ==
    [][ /\ Len(students') >= Len(students)
        /\ \A i \in 1..Len(students) :
              /\ students'[i].name = students[i].name
              /\ IsPrefix(students[i].grades, students'[i].grades)
        /\ Len(students') # Len(students) =>
              /\ pc = "new_name"
              /\ students' = students \o <<[name |-> students'[Len(students')].name,
                                            grades |-> <<>>]>>
        /\ (\E i \in 1..Len(students) : students'[i].grades # students[i].grades) =>
              /\ pc = "grade"
              /\ \E i \in 1..Len(students) : \E g \in 0..100 :
                    students' = [students EXCEPT ![i].grades = Append(@, g)]
        /\ pc = "choice" => students' = students
        /\ (pc = "choice" /\ last'.event = "line"
              /\ ParseInt(last'.line) # [ok |-> TRUE, val |-> 5]) =>
                 driver' = "Running"
        /\ (pc' = "new_name" /\ pc # "new_name") =>
              pc = "choice" /\ ParseInt(last'.line) = [ok |-> TRUE, val |-> 1]
        /\ (pc' = "grade_name" /\ pc # "grade_name") =>
              pc = "choice" /\ ParseInt(last'.line) = [ok |-> TRUE, val |-> 2]
        /\ (pc' = "grade" /\ pc # "grade") => pc = "grade_name"
      ]_vars

\* A menu line outside 1..5 has just been refused while the registry holds
\* two records, three grades in all, the second record having two of them.
C8_Witness ==
    /\ JustRead("choice") /\ out.kind = "InvalidChoiceRange"
    /\ last.line = <<"6">>
    /\ driver = "Running"
    /\ Len(students) = 2 /\ Len(students[2].grades) = 2 /\ Len(students[1].grades) = 1

\* C9: the driver leaves Running only for Exiting, with the farewell, and
\* only when the number 5 was read at the menu prompt or an interrupt arrived
\* at some prompt; nothing else, the end of input included, ends the program
\* or leaves it as an unhandled failure.
C9_ExitOnlyByFiveOrInterrupt ==
    driver # "Running" =>
        /\ driver = "Exiting"
        /\ out.kind = "Farewell"
        /\ \/ JustChose(5)
           \/ last.event = "interrupt"

\* The last step ended the operation dispatched last: a line was read and the
\* program is at the menu prompt again (or has taken choice 5), or an
\* interrupt or the end of input arrived at a prompt inside the operation.
OperationEnded ==
    \/ pc = "choice" /\ last.event = "line"
    \/ driver # "Running" /\ last.prompt # "choice"

\* The operation dispatched last ran to its end and its result is in the
\* registry: a record was added, or an add-grades session saw 'done'.
OperationCompleted ==
    \/ /\ out.kind = "Added"
       /\ students = before \o <<[name |-> out.name, grades |-> <<>>]>>
    \/ /\ out.kind = "GradesUpdated"
       /\ \E i \in 1..Len(students) : students[i].name = out.name /\ SessionApplied(i)

\* An add-grades session was cut short at its grade prompt, by an interrupt
\* or by the end of input.
SessionCutShort ==
    /\ driver # "Running"
    /\ last.event \in {"interrupt", "eof"} /\ last.prompt = "grade"

\* C10 as stated: whenever an operation has ended, by completing, by failing
\* validation or by being cut short, the registry is the registry before the
\* operation or the result of the completed operation.
C10_AllOrNothing ==
    OperationEnded => (students = before \/ OperationCompleted)

\* C10 as amended: whenever an operation has ended, the registry is the
\* registry before it, or the result of the completed operation, or, for an
\* add-grades session cut short, the registry before it with the valid tokens
\* typed so far appended to the student's grades; the program has then
\* stopped.
C10_AllOrNothingUnlessCutShort ==
    OperationEnded =>
        \/ students = before
        \/ OperationCompleted
        \/ SessionCutShort /\ SessionApplied(student)

\* An interrupt has cut short a session in which one grade had been stored
\* after an earlier one.
C10_Witness ==
    /\ driver = "Exiting" /\ last.event = "interrupt" /\ last.prompt = "grade"
    /\ Len(accepted) = 1
    /\ Len(students[student].grades) = 2
    /\ students # before

====
